---- MODULE Spec2Model ----
(***************************************************************************)
(* threads-harvester: extraction of threaded content from a DOM, the       *)
(* checkbox overlay (UIManager) and the ContentScraper facade.             *)
(*                                                                         *)
(* Strings are sequences of character codes.  DOM nodes are records; an    *)
(* element is identified by its path, the sequence of child indexes that   *)
(* leads to it from document.body.                                         *)
(***************************************************************************)
EXTENDS Integers, Sequences, FiniteSets, TLC

VARIABLES
    textCache,    \* BaseExtractor.textCache: text -> cleaned text
    href,         \* window.location.href when the scraper is constructed
    doc,          \* document.body.childNodes: the page the scraper runs on
    site,         \* the extractor the ContentScraper constructor selected
    includeHtml,  \* options.includeHtml
    showCheckboxes, \* options.showCheckboxes
    treeWalker,   \* whether document.createTreeWalker works in the host
    heap,         \* ContentItem objects: object id -> item record
    content,      \* ContentScraper.content: NULL or the array of item objects
    pending,      \* run() calls awaiting extract(): the results they will store
    body,         \* checkbox nodes appended to document.body, in order
    listeners,    \* number of callbacks registered with ContentScraper.on
    stale,        \* callbacks (1..stale) registered before the last destroy()
    held,         \* the Content a client got from getContent(), or NULL
    op,           \* the last operation, with what it reported to listeners
    everResolved, \* a run() has resolved
    destroyed,    \* destroy() has returned and run() was not called since
    result        \* SpecExtract: the items of the last extract() call

vars == <<textCache, href, doc, site, includeHtml, showCheckboxes, treeWalker, heap, content,
          pending, body, listeners, stale, held, op, everResolved, destroyed,
          result>>

\* null and undefined are the empty tuple; a value that may be absent is a
\* non-empty tuple when present (an element's path, <<array>>, <<href>>).
NULL == <<>>
Undefined == <<>>

----------------------------------------------------------------------------
(* Characters and strings *)

SPACE == 32
TAB == 9
NEWLINE == 10
CR == 13

\* A string of n copies of the character c.
Rep(c, n) == [i \in 1..n |-> c]

\* [ \t] of the first regular expression of cleanText.
IsBlank(c) == c \in {SPACE, TAB}

\* The characters that \s of a JavaScript regular expression matches and
\* that String.prototype.trim removes (WhiteSpace and LineTerminator of
\* ECMAScript), as UTF-16 code units: tab, line feed, vertical tab, form
\* feed, carriage return, space, no-break space, ogham space mark, en quad
\* to hair space, line and paragraph separator, narrow no-break space,
\* medium mathematical space, ideographic space and the byte order mark.
WhiteSpace ==
    {TAB, NEWLINE, 11, 12, CR, SPACE, 160, 5760} \cup (8192..8202)
    \cup {8232, 8233, 8239, 8287, 12288, 65279}

\* \s of the second regular expression, and the characters trim() removes.
IsSpace(c) == c \in WhiteSpace

\* The subsequence of s at the (increasing) index sequence idx.
AtIndexes(s, idx) == [k \in 1..Len(idx) |-> s[idx[k]]]

Indexes(s) == [i \in 1..Len(s) |-> i]

\* String.prototype.trim
trim(s) ==
    LET n == Len(s)
        a == CHOOSE i \in 1..n : ~IsSpace(s[i]) /\ \A j \in 1..(i - 1) : IsSpace(s[j])
        b == CHOOSE i \in 1..n : ~IsSpace(s[i]) /\ \A j \in (i + 1)..n : IsSpace(s[j])
    IN  IF \A i \in 1..n : IsSpace(s[i]) THEN <<>> ELSE SubSeq(s, a, b)

\* .replace(/[ \t]+/, ' ') without the g flag: only the first run of blanks
\* becomes one space.
ReplaceBlankRunsFirstOnly(s) ==
    LET blanks == {i \in 1..Len(s) : IsBlank(s[i])}
        first == CHOOSE i \in blanks : \A j \in blanks : i <= j
        inRun(i) == i > first /\ \A k \in first..i : IsBlank(s[k])
        keep(i) == ~inRun(i)
        idx == SelectSeq(Indexes(s), keep)
    IN  IF blanks = {} THEN s
        ELSE [k \in 1..Len(idx) |-> IF idx[k] = first THEN SPACE ELSE s[idx[k]]]

\* .replace(/[ \t]+/g, ' '): every maximal run of blanks becomes one space.
ReplaceBlankRuns(s) ==
    LET keep(i) == ~IsBlank(s[i]) \/ i = 1 \/ ~IsBlank(s[i - 1])
        idx == SelectSeq(Indexes(s), keep)
    IN  [k \in 1..Len(idx) |-> IF IsBlank(s[idx[k]]) THEN SPACE ELSE s[idx[k]]]

\* .replace(/\n\s*\n/g, '\n\n'): scanning from the left, a match starts at a
\* newline that is followed, over whitespace only, by another newline, and
\* (\s* being greedy) ends at the last newline of that whitespace run; the
\* match is replaced by two newlines.  Position i is dropped when it lies
\* strictly between the first and the last newline of its whitespace run.
ReplaceBlankLines(s) ==
    LET n == Len(s)
        AllSpace(a, b) == \A k \in a..b : IsSpace(s[k])
        NewlineBefore(i) == \E j \in 1..(i - 1) : s[j] = NEWLINE /\ AllSpace(j, i)
        NewlineAfter(i) == \E j \in (i + 1)..n : s[j] = NEWLINE /\ AllSpace(i, j)
        keep(i) == \/ ~IsSpace(s[i])
                   \/ ~NewlineBefore(i)
                   \/ ~NewlineAfter(i)
        idx == SelectSeq(Indexes(s), keep)
    IN  AtIndexes(s, idx)

\* cleanText without the final trim().
cleanTextUntrimmed(text) == ReplaceBlankLines(ReplaceBlankRuns(text))

\* BaseExtractor.cleanText without its cache (the cache stores exactly this
\* value under the raw text).
cleanText(text) == trim(ReplaceBlankLines(ReplaceBlankRuns(text)))

(* BaseExtractor.textCache *)

\* if (this.textCache.size > 100)
CacheLimit == 100

\* this.textCache.has(text)
CacheHas(c, text) == text \in DOMAIN c

\* A lookup that returns the value of some entry, whatever the key.
CacheGetAny(c, text) == c[CHOOSE k \in DOMAIN c : TRUE]

\* this.textCache.get(text)
CacheGet(c, text) == c[text]

\* A size test that never finds the cache too large.
CacheNeverFull(c) == FALSE

\* this.textCache.size > 100
CacheFull(c) == Cardinality(DOMAIN c) > CacheLimit

\* this.textCache.set(text, cleaned)
CacheSet(c, text, cleaned) ==
    [t \in DOMAIN c \cup {text} |-> IF t = text THEN cleaned ELSE c[t]]

\* The cache after one cleanText(text) call: a hit leaves it alone; a miss
\* clears it when it holds more than 100 entries and then stores the
\* cleaned text under the raw text.
CacheAfterCleanText(c, text) ==
    IF CacheHas(c, text) THEN c
    ELSE CacheSet(IF CacheFull(c) THEN <<>> ELSE c, text, cleanText(text))

\* The cache after the cleanText calls on texts, in their order.
RECURSIVE CacheAfterCalls(_, _)
CacheAfterCalls(c, texts) ==
    IF texts = <<>> THEN c
    ELSE CacheAfterCalls(CacheAfterCleanText(c, texts[1]), Tail(texts))

\* The concatenation of a sequence of sequences.
RECURSIVE Concat(_)
Concat(seqs) == IF seqs = <<>> THEN <<>> ELSE seqs[1] \o Concat(Tail(seqs))

----------------------------------------------------------------------------
(* generateId: a 32-bit hash kept as two 16-bit halves <<hi, lo>>, since   *)
(* the value h*31 + c does not fit the checker's integers.                 *)

Half == 65536

\* hash = ((hash << 5) - hash) + char; hash = hash & hash
\* i.e. (hash * 31 + char) modulo 2^32.
HashStep(h, c) ==
    LET lo == h[2] * 31 + c
        hi == h[1] * 31 + (lo \div Half)
    IN  <<hi % Half, lo % Half>>

\* The for loop over content[lo..hi], in index order: the characters up to
\* mid first, then the rest from the hash reached there.  (The test on
\* left makes the checker compute it before it goes on; it is always true.)
RECURSIVE HashLoop(_, _, _, _)
HashLoop(h, s, lo, hi) ==
    IF lo > hi THEN h
    ELSE IF lo = hi THEN HashStep(h, s[lo])
    ELSE LET mid == (lo + hi) \div 2
             left == HashLoop(h, s, lo, mid)
         IN  IF left[1] >= 0 THEN HashLoop(left, s, mid + 1, hi) ELSE left

\* The 32-bit pattern read as a signed integer is negative.
IsNegative32(h) == h[1] >= Half \div 2

\* Math.abs of the signed reading (2^31 for the pattern 0x80000000).
Abs32(h) ==
    IF ~IsNegative32(h) THEN h
    ELSE LET lo == (Half - h[2]) % Half
             hi == (Half - 1 - h[1]) + (IF h[2] = 0 THEN 1 ELSE 0)
         IN  <<hi, lo>>

\* Number.prototype.toString of a value 0..2^31 held in halves.
RECURSIVE ToDecimal(_)
ToDecimal(h) ==
    LET qh == h[1] \div 10
        rest == (h[1] % 10) * Half + h[2]
        ql == rest \div 10
        digit == 48 + (rest % 10)
    IN  IF qh = 0 /\ ql = 0 THEN <<digit>>
        ELSE ToDecimal(<<qh, ql>>) \o <<digit>>

\* generateId without Math.abs: the digits of the 32-bit pattern itself.
generateIdWithoutAbs(text) ==
    IF Len(text) = 0 THEN <<48>>
    ELSE ToDecimal(HashLoop(<<0, 0>>, text, 1, Len(text)))

\* BaseExtractor.generateId
generateId(text) ==
    IF Len(text) = 0 THEN <<48>>
    ELSE ToDecimal(Abs32(HashLoop(<<0, 0>>, text, 1, Len(text))))

----------------------------------------------------------------------------
(* The DOM.  A text node is [nodeType |-> 3, data |-> string]; an element   *)
(* is [nodeType |-> 1, tagName, attrs, classes, vis, childNodes], where vis *)
(* holds what isElementVisible reads from the element.                      *)

TEXT_NODE == 3
ELEMENT_NODE == 1

Text(data) == [nodeType |-> TEXT_NODE, data |-> data]

Elem(tag, attrs, classes, vis, children) ==
    [nodeType |-> ELEMENT_NODE, tagName |-> tag, attrs |-> attrs,
     classes |-> classes, vis |-> vis, childNodes |-> children]

NoAttrs == [testid |-> "", role |-> "", slot |-> "", id |-> "", href |-> ""]

\* The node at a path below a list of nodes.
RECURSIVE NodeAt(_, _)
NodeAt(nodes, path) ==
    IF Len(path) = 1 THEN nodes[path[1]]
    ELSE NodeAt(nodes[path[1]].childNodes, Tail(path))

Parent(path) == SubSeq(path, 1, Len(path) - 1)

\* The paths of the proper ancestors of path, nearest first.
Ancestors(path) == [k \in 1..(Len(path) - 1) |-> SubSeq(path, 1, Len(path) - k)]

IsPrefix(a, b) == Len(a) <= Len(b) /\ SubSeq(b, 1, Len(a)) = a

\* The paths of all elements below nodes, in document order (preorder);
\* nodes i.. of the list are still to visit.
RECURSIVE ElementPathsFrom(_, _, _)
ElementPathsFrom(nodes, prefix, i) ==
    IF i > Len(nodes) THEN <<>>
    ELSE LET here == prefix \o <<i>>
             own == IF nodes[i].nodeType = ELEMENT_NODE
                    THEN <<here>> \o ElementPathsFrom(nodes[i].childNodes, here, 1)
                    ELSE <<>>
         IN  own \o ElementPathsFrom(nodes, prefix, i + 1)

ElementPaths(d) == ElementPathsFrom(d, <<>>, 1)

\* A compound selector: tag, class and one attribute test ("" = no test),
\* with the combinator that joins it to the compound before it.
Simple(comb, tag, class, attr, value) ==
    [comb |-> comb, tag |-> tag, class |-> class, attr |-> attr, value |-> value]

MatchesSimple(el, c) ==
    /\ c.tag = "" \/ el.tagName = c.tag
    /\ c.class = "" \/ c.class \in el.classes
    /\ c.attr = "" \/ el.attrs[c.attr] = c.value

\* Element.matches for the selector sel (a sequence of compounds), its
\* compounds 1..k matched right to left.
RECURSIVE MatchesUpTo(_, _, _, _)
MatchesUpTo(d, path, sel, k) ==
    /\ MatchesSimple(NodeAt(d, path), sel[k])
    /\ \/ k = 1
       \/ /\ sel[k].comb = ">"
          /\ Len(path) > 1
          /\ MatchesUpTo(d, Parent(path), sel, k - 1)
       \/ /\ sel[k].comb = " "
          /\ \E a \in 1..(Len(path) - 1) :
                 MatchesUpTo(d, Ancestors(path)[a], sel, k - 1)

Matches(d, path, sel) == MatchesUpTo(d, path, sel, Len(sel))

\* document.querySelectorAll
querySelectorAll(d, sel) ==
    LET hit(p) == Matches(d, p, sel)
    IN  SelectSeq(ElementPaths(d), hit)

\* document.querySelector
querySelector(d, sel) ==
    LET all == querySelectorAll(d, sel)
    IN  IF all = <<>> THEN NULL ELSE all[1]

\* element.querySelector: the first descendant of root that matches.
querySelectorIn(d, root, sel) ==
    LET below(p) == p # root /\ IsPrefix(root, p)
        all == SelectSeq(querySelectorAll(d, sel), below)
    IN  IF all = <<>> THEN NULL ELSE all[1]

\* element.closest: the element itself or its nearest matching ancestor.
closest(d, path, sel) ==
    LET chain == <<path>> \o Ancestors(path)
        hits == {k \in 1..Len(chain) : Matches(d, chain[k], sel)}
    IN  IF hits = {} THEN NULL
        ELSE chain[CHOOSE k \in hits : \A j \in hits : k <= j]

\* element.innerHTML and element.outerHTML, kept as the markup's structure.
innerHTML(d, path) == <<"innerHTML", NodeAt(d, path).childNodes>>
outerHTML(d, path) == <<"outerHTML", NodeAt(d, path)>>

----------------------------------------------------------------------------
(* BaseExtractor.isElementVisible *)

\* A visibility test that takes offsetParent === null for "not rendered".
isElementVisibleByOffsetParent(el) ==
    LET v == el.vis
    IN  IF ~v.isConnected \/ v.offsetParent = NULL THEN FALSE
        ELSE IF v.styleDisplay = "none" \/ v.styleVisibility = "hidden" THEN FALSE
        ELSE IF v.width = 0 \/ v.height = 0 THEN FALSE
        ELSE IF v.computedThrows THEN TRUE
        ELSE v.computedDisplay # "none" /\ v.computedVisibility # "hidden"

isElementVisible(el) ==
    LET v == el.vis
    IN  IF ~v.isConnected THEN FALSE
        ELSE IF v.offsetParent = NULL /\ v.styleDisplay = "none" THEN FALSE
        ELSE IF v.styleDisplay = "none" \/ v.styleVisibility = "hidden" THEN FALSE
        ELSE IF v.width = 0 \/ v.height = 0 THEN FALSE
        ELSE IF v.computedThrows THEN TRUE
        ELSE v.computedDisplay # "none" /\ v.computedVisibility # "hidden"

----------------------------------------------------------------------------
(* BaseExtractor.extractTextFromElement / extractTextRecursive *)

ExcludedTags == {"script", "style", "noscript", "svg", "canvas"}

\* Array.prototype.join
RECURSIVE join(_, _)
join(parts, sep) ==
    IF parts = <<>> THEN <<>>
    ELSE IF Len(parts) = 1 THEN parts[1]
    ELSE parts[1] \o sep \o join(Tail(parts), sep)

\* The text nodes below nodes in document order, each with the tag names
\* of all its ancestor elements (tags: those of the ancestors of nodes).
RECURSIVE TextNodesFrom(_, _, _)
TextNodesFrom(nodes, tags, i) ==
    IF i > Len(nodes) THEN <<>>
    ELSE LET n == nodes[i]
             own == IF n.nodeType = TEXT_NODE
                    THEN <<[data |-> n.data, tags |-> tags]>>
                    ELSE TextNodesFrom(n.childNodes, tags \cup {n.tagName}, 1)
         IN  own \o TextNodesFrom(nodes, tags, i + 1)

\* The tag names of an element and of all its ancestors.
TagsUpFrom(d, path) ==
    {NodeAt(d, SubSeq(path, 1, k)).tagName : k \in 1..Len(path)}

NonEmpty(s) == s # <<>>

RECURSIVE extractTextRecursive(_)

\* const result = textParts.join(' ') of the manual walk over
\* element.childNodes.
extractTextRecursiveResult(el) ==
    LET part(n) ==
            IF n.nodeType = TEXT_NODE THEN trim(n.data)
            ELSE IF n.tagName \in ExcludedTags THEN <<>>
            ELSE extractTextRecursive(n)
        parts == [i \in 1..Len(el.childNodes) |-> part(el.childNodes[i])]
    IN  join(SelectSeq(parts, NonEmpty), <<SPACE>>)

\* The manual walk over element.childNodes.
extractTextRecursive(el) == cleanText(extractTextRecursiveResult(el))

\* The arguments of the cleanText calls of extractTextRecursive(el), in
\* call order: those of the walks of its child elements that are not
\* excluded, then its own joined text (the empty string included).
RECURSIVE extractTextRecursiveCalls(_)
extractTextRecursiveCalls(el) ==
    LET sub(n) ==
            IF n.nodeType = TEXT_NODE \/ n.tagName \in ExcludedTags THEN <<>>
            ELSE extractTextRecursiveCalls(n)
    IN  Concat([i \in 1..Len(el.childNodes) |-> sub(el.childNodes[i])])
        \o <<extractTextRecursiveResult(el)>>

\* The TreeWalker pass: acceptNode rejects a text node with an excluded
\* ancestor (the walk up parentElement does not stop at the root element).
TreeWalkerText(d, path) ==
    LET nodes == TextNodesFrom(NodeAt(d, path).childNodes, TagsUpFrom(d, path), 1)
        accepted(n) == n.tags \cap ExcludedTags = {}
        kept == SelectSeq(nodes, accepted)
        parts == [i \in 1..Len(kept) |-> trim(kept[i].data)]
    IN  join(SelectSeq(parts, NonEmpty), <<SPACE>>)

\* tw: document.createTreeWalker works; when it throws, or its result is
\* empty, the manual walk decides.
extractTextFromElement(d, path, tw) ==
    IF tw /\ Len(TreeWalkerText(d, path)) > 0
    THEN cleanText(TreeWalkerText(d, path))
    ELSE extractTextRecursive(NodeAt(d, path))

\* The arguments of the cleanText calls of extractTextFromElement, in call
\* order: the joined text of the TreeWalker pass when it is not empty, else
\* those of the manual walk.
extractTextFromElementCalls(d, path, tw) ==
    IF tw /\ Len(TreeWalkerText(d, path)) > 0
    THEN <<TreeWalkerText(d, path)>>
    ELSE extractTextRecursiveCalls(NodeAt(d, path))

----------------------------------------------------------------------------
(* The extractors.  extract() returns a Content; the model keeps its items. *)

PageURL == <<"window.location.href">>

\* An item built as if the extractor ignored its includeHtml flag.
ItemWithoutHtml(id, element, text, html, type, url) ==
    [id |-> id, element |-> element, textContent |-> text,
     htmlContent |-> Undefined, type |-> type, URL |-> url, selected |-> FALSE]

Item(id, element, text, html, type, url) ==
    [id |-> id, element |-> element, textContent |-> text, htmlContent |-> html,
     type |-> type, URL |-> url, selected |-> FALSE]

\* The selector loop without its break: the matches of the last selector
\* that matches anything replace those of the earlier ones.
FirstMatchesNoBreak(d, selectors) ==
    LET hits == {k \in 1..Len(selectors) : querySelectorAll(d, selectors[k]) # <<>>}
    IN  IF hits = {} THEN <<>>
        ELSE querySelectorAll(d, selectors[CHOOSE k \in hits : \A j \in hits : j <= k])

\* for (const selector of selectors) { ...; if (elements.length > 0) break }
\* the matches of the first selector of the list that matches anything.
FirstMatches(d, selectors) ==
    LET hits == {k \in 1..Len(selectors) : querySelectorAll(d, selectors[k]) # <<>>}
    IN  IF hits = {} THEN <<>>
        ELSE querySelectorAll(d, selectors[CHOOSE k \in hits : \A j \in hits : k <= j])

\* (el as HTMLAnchorElement)?.href
HrefOf(d, path) == IF path = NULL THEN Undefined ELSE <<NodeAt(d, path).attrs.href>>

(* GenericExtractor *)

GenericSelectors ==
    << <<Simple("", "article", "", "", "")>>,
       <<Simple("", "main", "", "", "")>>,
       <<Simple("", "", "", "role", "main")>>,
       <<Simple("", "", "content", "", "")>>,
       <<Simple("", "", "", "id", "content")>>,
       <<Simple("", "", "post", "", "")>>,
       <<Simple("", "", "entry-content", "", "")>> >>

ParagraphSelector == <<Simple("", "p", "", "", "")>>

GenericMinLength == 20
GenericParagraphMinLength == 50

GenericFoundElements(d) == FirstMatches(d, GenericSelectors)

GenericFallbackElements(d, tw) ==
    LET ok(p) == /\ isElementVisible(NodeAt(d, p))
                 /\ Len(extractTextFromElement(d, p, tw)) > GenericParagraphMinLength
    IN  SelectSeq(querySelectorAll(d, ParagraphSelector), ok)

GenericItems(d, elements, html, tw) ==
    LET admit(p) == Len(extractTextFromElement(d, p, tw)) > GenericMinLength
        make(p) == Item(generateId(extractTextFromElement(d, p, tw)), p,
                        extractTextFromElement(d, p, tw),
                        IF html THEN innerHTML(d, p) ELSE Undefined,
                        "post", Undefined)
    IN  LET kept == SelectSeq(elements, admit)
        IN  [i \in 1..Len(kept) |-> make(kept[i])]

GenericExtract(d, html, tw) ==
    LET found == GenericFoundElements(d)
    IN  GenericItems(d, IF Len(found) = 0 THEN GenericFallbackElements(d, tw) ELSE found,
                     html, tw)

\* The elements whose text GenericExtractor.extract() extracts, in call
\* order: without a content area every visible paragraph in the filter of
\* the fallback, then every element of the item loop.
GenericTextElements(d, tw) ==
    LET found == GenericFoundElements(d)
        visible(p) == isElementVisible(NodeAt(d, p))
    IN  IF Len(found) = 0
        THEN SelectSeq(querySelectorAll(d, ParagraphSelector), visible)
             \o GenericFallbackElements(d, tw)
        ELSE found

(* TwitterExtractor *)

TweetSelector == <<Simple("", "", "", "testid", "tweetText")>>
TweetArticleSelector == <<Simple("", "article", "", "testid", "tweet")>>
TweetTextClassSelector == <<Simple("", "", "tweet-text", "", "")>>
ArticleSelector == <<Simple("", "article", "", "", "")>>

TwitterSelectors ==
    << TweetArticleSelector,
       TweetSelector,
       <<Simple("", "article", "", "role", "article")>>,
       TweetTextClassSelector,
       <<Simple("", "", "twitter-tweet", "", "")>> >>

TwitterMinLength == 5
TwitterArticleMinLength == 20
TwitterArticleMaxLength == 2000

TwitterTweetElements(d) == FirstMatches(d, TwitterSelectors)

\* tweetEl.querySelector(TWEET) || tweetEl.querySelector('.tweet-text') || tweetEl
TwitterTextElement(d, p) ==
    IF querySelectorIn(d, p, TweetSelector) # NULL
    THEN querySelectorIn(d, p, TweetSelector)
    ELSE IF querySelectorIn(d, p, TweetTextClassSelector) # NULL
    THEN querySelectorIn(d, p, TweetTextClassSelector)
    ELSE p

TwitterTweetItems(d, html, tw) ==
    LET text(p) == extractTextFromElement(d, TwitterTextElement(d, p), tw)
        admit(p) == isElementVisible(NodeAt(d, p)) /\ Len(text(p)) > TwitterMinLength
        make(p) == Item(generateId(text(p)), p, text(p),
                        IF html THEN innerHTML(d, p) ELSE Undefined,
                        "post", Undefined)
    IN  LET kept == SelectSeq(TwitterTweetElements(d), admit)
        IN  [i \in 1..Len(kept) |-> make(kept[i])]

TwitterArticleItems(d, html, tw) ==
    LET text(p) == extractTextFromElement(d, p, tw)
        admit(p) == /\ isElementVisible(NodeAt(d, p))
                    /\ Len(text(p)) > TwitterArticleMinLength
                    /\ Len(text(p)) < TwitterArticleMaxLength
        make(p) == Item(generateId(text(p)), p, text(p),
                        IF html THEN innerHTML(d, p) ELSE Undefined,
                        "post", Undefined)
    IN  LET kept == SelectSeq(querySelectorAll(d, ArticleSelector), admit)
        IN  [i \in 1..Len(kept) |-> make(kept[i])]

\* An extract() that runs the article pass whatever the tweet pass found.
TwitterExtractBothPasses(d, html, tw) ==
    TwitterTweetItems(d, html, tw) \o TwitterArticleItems(d, html, tw)

TwitterExtract(d, html, tw) ==
    LET tweets == TwitterTweetItems(d, html, tw)
    IN  IF Len(tweets) = 0 THEN TwitterArticleItems(d, html, tw) ELSE tweets

\* The elements whose text TwitterExtractor.extract() extracts, in call
\* order: the text element of every visible tweet, then, when the tweet
\* pass gave no item, every visible article.
TwitterTextElements(d, tw) ==
    LET visible(p) == isElementVisible(NodeAt(d, p))
        tweets == SelectSeq(TwitterTweetElements(d), visible)
    IN  [i \in 1..Len(tweets) |-> TwitterTextElement(d, tweets[i])]
        \o (IF Len(TwitterTweetItems(d, FALSE, tw)) = 0
            THEN SelectSeq(querySelectorAll(d, ArticleSelector), visible)
            ELSE <<>>)

(* RedditExtractor *)

RedditCommentSelector == <<Simple("", "", "", "slot", "comment")>>
RedditPostSelector == <<Simple("", "", "", "slot", "text-body")>>

RedditMinLength == 5

\* SITE_SELECTORS.REDDIT has no COMMENT_ID entry: document.querySelector of
\* it finds nothing and the comment's URL is undefined.
RedditItems(d, selector, type, url, html, tw) ==
    LET text(p) == extractTextFromElement(d, p, tw)
        admit(p) == isElementVisible(NodeAt(d, p)) /\ Len(text(p)) > RedditMinLength
        make(p) == Item(generateId(text(p)), p, text(p),
                        IF html THEN innerHTML(d, p) ELSE Undefined,
                        type, url)
    IN  LET kept == SelectSeq(querySelectorAll(d, selector), admit)
        IN  [i \in 1..Len(kept) |-> make(kept[i])]

\* An extract() that scans the posts before the comments.
RedditExtractPostsFirst(d, html, tw) ==
    RedditItems(d, RedditPostSelector, "post", PageURL, html, tw)
    \o RedditItems(d, RedditCommentSelector, "comment", Undefined, html, tw)

RedditExtract(d, html, tw) ==
    RedditItems(d, RedditCommentSelector, "comment", Undefined, html, tw)
    \o RedditItems(d, RedditPostSelector, "post", PageURL, html, tw)

\* The elements whose text RedditExtractor.extract() extracts, in call
\* order: the visible comments, then the visible posts.
RedditTextElements(d) ==
    LET visible(p) == isElementVisible(NodeAt(d, p))
    IN  SelectSeq(querySelectorAll(d, RedditCommentSelector), visible)
        \o SelectSeq(querySelectorAll(d, RedditPostSelector), visible)

(* RedditExtractor of src/src/extractors/reddit.ts, the repository's other *)
(* copy of the Reddit strategy: the same two loops with a minimum length  *)
(* of 10 and items without URL.                                           *)

RedditMinLengthV1 == 10

RedditItemsV1(d, selector, type, html, tw) ==
    LET text(p) == extractTextFromElement(d, p, tw)
        admit(p) == isElementVisible(NodeAt(d, p)) /\ Len(text(p)) > RedditMinLengthV1
        make(p) == Item(generateId(text(p)), p, text(p),
                        IF html THEN innerHTML(d, p) ELSE Undefined,
                        type, Undefined)
    IN  LET kept == SelectSeq(querySelectorAll(d, selector), admit)
        IN  [i \in 1..Len(kept) |-> make(kept[i])]

RedditExtractV1(d, html, tw) ==
    RedditItemsV1(d, RedditCommentSelector, "comment", html, tw)
    \o RedditItemsV1(d, RedditPostSelector, "post", html, tw)

(* HackerNewsExtractor *)

HNPostSelector == <<Simple("", "", "toptext", "", "")>>
HNPostIdSelector ==
    <<Simple("", "", "subtext", "", ""), Simple(" ", "span", "age", "", ""),
      Simple(">", "a", "", "", "")>>
HNCommentsSelector == <<Simple("", "", "commtext", "", "")>>
HNCommentIdSelector ==
    <<Simple("", "", "comhead", "", ""), Simple(" ", "span", "age", "", ""),
      Simple(">", "a", "", "", "")>>
HNCommentTreeSelector ==
    <<Simple("", "", "comment-tree", "", ""), Simple(" ", "", "comtr", "", "")>>
HNStoryItemSelector == <<Simple("", "", "athing", "", "")>>
HNTitleLinkSelector ==
    <<Simple("", "", "titleline", "", ""), Simple(">", "a", "", "", "")>>

HNMinLength == 10

\* 1. the main submission: .toptext when it is there and visible, else the
\* first visible title link with text.
HNPostItems(d, html, tw) ==
    LET mainPost == querySelector(d, HNPostSelector)
        postUrl == HrefOf(d, querySelector(d, HNPostIdSelector))
        text(p) == extractTextFromElement(d, p, tw)
        linkOk(p) == isElementVisible(NodeAt(d, p)) /\ Len(text(p)) > 0
        links == SelectSeq(querySelectorAll(d, HNTitleLinkSelector), linkOk)
        row(p) == IF closest(d, p, HNStoryItemSelector) # NULL
                  THEN closest(d, p, HNStoryItemSelector) ELSE p
    IN  IF mainPost # NULL /\ isElementVisible(NodeAt(d, mainPost))
        THEN IF Len(text(mainPost)) > HNMinLength
             THEN <<Item(generateId(text(mainPost)), mainPost, text(mainPost),
                         IF html THEN innerHTML(d, mainPost) ELSE Undefined,
                         "post", postUrl)>>
             ELSE <<>>
        ELSE IF links = <<>> THEN <<>>
        ELSE <<Item(generateId(text(links[1])), row(links[1]), text(links[1]),
                    IF html THEN outerHTML(d, links[1]) ELSE Undefined,
                    "post", postUrl)>>

\* 2. all comments.
HNCommentItems(d, html, tw) ==
    LET inner(p) == querySelectorIn(d, p, HNCommentsSelector)
        text(p) == extractTextFromElement(d, inner(p), tw)
        admit(p) == /\ inner(p) # NULL
                    /\ isElementVisible(NodeAt(d, inner(p)))
                    /\ Len(text(p)) > HNMinLength
        make(p) == Item(generateId(text(p)), p, text(p),
                        IF html THEN innerHTML(d, inner(p)) ELSE Undefined,
                        "comment", HrefOf(d, querySelectorIn(d, p, HNCommentIdSelector)))
    IN  LET kept == SelectSeq(querySelectorAll(d, HNCommentTreeSelector), admit)
        IN  [i \in 1..Len(kept) |-> make(kept[i])]

HackerNewsExtract(d, html, tw) ==
    HNPostItems(d, html, tw) \o HNCommentItems(d, html, tw)

\* The elements whose text HackerNewsExtractor.extract() extracts, in call
\* order: .toptext when it is there and visible, else the visible title
\* links up to the first one with text; then the visible .commtext of every
\* comment row.
HNTextElements(d, tw) ==
    LET visible(p) == isElementVisible(NodeAt(d, p))
        mainPost == querySelector(d, HNPostSelector)
        links == SelectSeq(querySelectorAll(d, HNTitleLinkSelector), visible)
        withText == {i \in 1..Len(links) :
                        Len(extractTextFromElement(d, links[i], tw)) > 0}
        inner(p) == querySelectorIn(d, p, HNCommentsSelector)
        shown(p) == inner(p) # NULL /\ isElementVisible(NodeAt(d, inner(p)))
        rows == SelectSeq(querySelectorAll(d, HNCommentTreeSelector), shown)
    IN  (IF mainPost # NULL /\ isElementVisible(NodeAt(d, mainPost))
         THEN <<mainPost>>
         ELSE IF withText = {} THEN links
         ELSE SubSeq(links, 1, CHOOSE i \in withText : \A j \in withText : i <= j))
        \o [i \in 1..Len(rows) |-> inner(rows[i])]

\* this.extractor.extract() of the extractor the constructor chose.
Extract(s, d, html, tw) ==
    CASE s = "hackernews" -> HackerNewsExtract(d, html, tw)
      [] s = "reddit" -> RedditExtract(d, html, tw)
      [] s = "twitter" -> TwitterExtract(d, html, tw)
      [] OTHER -> GenericExtract(d, html, tw)

\* The elements whose text extract() extracts, in call order.
ExtractTextElements(s, d, tw) ==
    CASE s = "hackernews" -> HNTextElements(d, tw)
      [] s = "reddit" -> RedditTextElements(d)
      [] s = "twitter" -> TwitterTextElements(d, tw)
      [] OTHER -> GenericTextElements(d, tw)

\* The arguments of the cleanText calls of extract(), in call order.
ExtractCleanTextCalls(s, d, tw) ==
    LET elements == ExtractTextElements(s, d, tw)
    IN  Concat([i \in 1..Len(elements) |->
                    extractTextFromElementCalls(d, elements[i], tw)])

\* this.textCache after extract() on an extractor whose cache was c.
ExtractCache(c, s, d, tw) == CacheAfterCalls(c, ExtractCleanTextCalls(s, d, tw))

----------------------------------------------------------------------------
(* Documents the model runs on. *)

\* What isElementVisible reads for an element that is shown, for one with
\* inline display:none (its box as the test suite mocks it), and for one
\* whose bounding box is empty.
Visible ==
    [isConnected |-> TRUE, offsetParent |-> <<"body">>, styleDisplay |-> "",
     styleVisibility |-> "", width |-> 100, height |-> 50,
     computedThrows |-> FALSE, computedDisplay |-> "block",
     computedVisibility |-> "visible"]
InlineNone == [Visible EXCEPT !.styleDisplay = "none"]
ZeroRect == [Visible EXCEPT !.width = 0, !.height = 0]
VisKinds == {Visible, InlineNone, ZeroRect}

WithAttr(name, value) == [NoAttrs EXCEPT ![name] = value]

\* Text of n letters a, or n letters b.
As(n) == Rep(97, n)
Bs(n) == Rep(98, n)

\* <tag ...>text</tag>
Leaf(tag, attrs, classes, v, text) == Elem(tag, attrs, classes, v, <<Text(text)>>)

GenericShapes ==
    {Leaf("article", NoAttrs, {}, v, t) : v \in VisKinds, t \in {As(20), As(21)}}
    \cup {Leaf("div", NoAttrs, {"content"}, v, As(21)) : v \in VisKinds}
    \cup {Leaf("p", NoAttrs, {}, v, t) : v \in VisKinds, t \in {As(50), Bs(51)}}

\* <article data-testid="tweet"><div data-testid="tweetText">text</div></article>
TweetArticle(v, text) ==
    Elem("article", WithAttr("testid", "tweet"), {}, v,
         <<Leaf("div", WithAttr("testid", "tweetText"), {}, Visible, text)>>)

\* <article data-testid="tweet"><div data-testid="User-Name">name</div>
\*   <div data-testid="tweetText">text</div></article>
TweetWithName(v, name, text) ==
    Elem("article", WithAttr("testid", "tweet"), {}, v,
         <<Leaf("div", WithAttr("testid", "User-Name"), {}, Visible, name),
           Leaf("div", WithAttr("testid", "tweetText"), {}, Visible, text)>>)

TwitterShapes ==
    {TweetArticle(v, t) : v \in VisKinds, t \in {As(5), As(6)}}
    \cup {TweetWithName(Visible, As(20), As(5))}
    \cup {Leaf("article", NoAttrs, {}, Visible, t) : t \in {As(1999), As(2000)}}
    \cup {Leaf("div", WithAttr("testid", "tweetText"), {}, v, As(6)) : v \in VisKinds}
    \cup {Leaf("article", WithAttr("role", "article"), {}, v, As(6)) : v \in VisKinds}
    \cup {Leaf("article", NoAttrs, {}, v, t) : v \in VisKinds, t \in {As(20), Bs(21)}}

RedditShapes ==
    {Leaf("div", WithAttr("slot", "comment"), {}, v, t) :
        v \in VisKinds, t \in {As(5), As(6)}}
    \cup {Leaf("div", WithAttr("slot", "text-body"), {}, v, t) :
        v \in VisKinds, t \in {As(5), As(6)}}

\* <span class="age"><a href=...>1</a></span>
AgeLink(target) ==
    Elem("span", NoAttrs, {"age"}, Visible,
         <<Leaf("a", WithAttr("href", target), {}, Visible, <<49>>)>>)

\* <tr class="athing"><td><span class="titleline"><a href>title</a></span></td></tr>
HNStoryRow(v, text) ==
    Elem("tr", NoAttrs, {"athing"}, Visible,
         <<Elem("span", NoAttrs, {"titleline"}, Visible,
                <<Leaf("a", WithAttr("href", "story"), {}, v, text)>>)>>)

\* <table class="comment-tree"><tr class="athing comtr">
\*   <span class="comhead">age link</span><div class="commtext">text</div></tr></table>
HNCommentTree(v, text) ==
    Elem("table", NoAttrs, {"comment-tree"}, Visible,
         <<Elem("tr", NoAttrs, {"athing", "comtr"}, Visible,
                <<Elem("span", NoAttrs, {"comhead"}, Visible, <<AgeLink("comment")>>),
                  Leaf("div", NoAttrs, {"commtext"}, v, text)>>)>>)

\* <tr class="athing"><span class="titleline"><a href><svg>1</svg></a></span></tr>:
\* a title link whose only text is inside an svg.
HNIconRow(v) ==
    Elem("tr", NoAttrs, {"athing"}, Visible,
         <<Elem("span", NoAttrs, {"titleline"}, Visible,
                <<Elem("a", WithAttr("href", "icon"), {}, v,
                       <<Leaf("svg", NoAttrs, {}, Visible, <<49>>)>>)>>)>>)

HNShapes ==
    {HNStoryRow(v, As(11)) : v \in VisKinds}
    \cup {HNIconRow(Visible)}
    \cup {Leaf("div", NoAttrs, {"toptext"}, v, t) : v \in VisKinds, t \in {As(10), As(11)}}
    \cup {HNCommentTree(v, t) : v \in VisKinds, t \in {As(10), Bs(11)}}
    \cup {Elem("td", NoAttrs, {"subtext"}, Visible, <<AgeLink("post")>>)}

Sites == {"generic", "twitter", "reddit", "hackernews"}

ShapesOf(s) ==
    CASE s = "hackernews" -> HNShapes
      [] s = "reddit" -> RedditShapes
      [] s = "twitter" -> TwitterShapes
      [] OTHER -> GenericShapes

\* The longest document body of SpecExtract.
MaxDocLen == 2

\* All sequences over S of length at most n.
SeqUpTo(S, n) == UNION {[1..k -> S] : k \in 0..n}

----------------------------------------------------------------------------
(* Site detection: the constructor of ContentScraper. *)

\* String.prototype.includes
includes(s, n) ==
    \E i \in 0..(Len(s) - Len(n)) : SubSeq(s, i + 1, i + Len(n)) = n

\* The extractor the constructor selects from window.location.href.
DetectSite(u) ==
    IF includes(u, "news.ycombinator.com") THEN "hackernews"
    ELSE IF includes(u, "reddit.com") THEN "reddit"
    ELSE IF includes(u, "twitter.com") \/ includes(u, "x.com") THEN "twitter"
    ELSE "generic"

\* The address the repository's tests give a page of each site.
PageUrl(s) ==
    CASE s = "hackernews" -> "https://news.ycombinator.com/item?id=123"
      [] s = "reddit" -> "https://www.reddit.com/r/programming"
      [] s = "twitter" -> "https://twitter.com/user/status/123"
      [] OTHER -> "https://unknown-site.com"

----------------------------------------------------------------------------
(* SpecExtract: one extract() call of one extractor on one document. *)

\* The record of the last operation: for a checkbox click, the node clicked,
\* the index of its item in the content (0 if it is no item of it), the
\* Snapshot before the click, how often each registered callback ran, the
\* selected flags of the Content passed to them, and, when the operation
\* before was a click on the same checkbox, the Snapshot before that click;
\* for a run() that rejected, the error it rejected with.
Did(name) ==
    [name |-> name, node |-> 0, index |-> 0, pre |-> NULL, calls |-> <<>>,
     detail |-> NULL, again |-> FALSE, before |-> NULL, error |-> NULL]

ScraperIdle ==
    /\ textCache = <<>>
    /\ showCheckboxes = FALSE
    /\ heap = <<>>
    /\ content = NULL
    /\ pending = <<>>
    /\ body = <<>>
    /\ listeners = 0
    /\ stale = 0
    /\ held = NULL
    /\ op = Did("none")
    /\ everResolved = FALSE
    /\ destroyed = FALSE

InitExtract ==
    /\ site \in Sites
    /\ href = PageUrl(site)
    /\ doc \in SeqUpTo(ShapesOf(site), MaxDocLen)
    /\ includeHtml \in BOOLEAN
    /\ treeWalker \in BOOLEAN
    /\ result = NULL
    /\ ScraperIdle

\* const content = await extractor.extract()
DoExtract ==
    /\ result = NULL
    /\ result' = <<Extract(site, doc, includeHtml, treeWalker)>>
    /\ textCache' = ExtractCache(textCache, site, doc, treeWalker)
    /\ UNCHANGED <<href, doc, site, includeHtml, showCheckboxes, treeWalker, heap,
                   content, pending, body, listeners, stale, held, op,
                   everResolved, destroyed>>

NextExtract == DoExtract

SpecExtract == InitExtract /\ [][NextExtract]_vars

----------------------------------------------------------------------------
(* SpecText: one cleanText call on one string; SpecVisible: one              *)
(* isElementVisible call on one element.  doc holds the argument.           *)

\* The longest string of SpecText.
MaxTextLen == 6

\* Spaces, tabs, newlines, carriage returns (whitespace that is neither a
\* blank of the first regular expression nor a newline) and one
\* non-whitespace character (the letter a).
Alphabet == {SPACE, TAB, NEWLINE, CR, 97}

InitText ==
    /\ site = "generic"
    /\ href = PageUrl(site)
    /\ doc \in {<<Text(t)>> : t \in SeqUpTo(Alphabet, MaxTextLen)}
    /\ includeHtml = FALSE
    /\ treeWalker = TRUE
    /\ result = NULL
    /\ ScraperIdle

\* const cleaned = this.cleanText(text)
CleanTextCall ==
    /\ result = NULL
    /\ result' = <<cleanText(doc[1].data)>>
    /\ textCache' = CacheAfterCleanText(textCache, doc[1].data)
    /\ UNCHANGED <<href, doc, site, includeHtml, showCheckboxes, treeWalker, heap,
                   content, pending, body, listeners, stale, held, op,
                   everResolved, destroyed>>

NextText == CleanTextCall

SpecText == InitText /\ [][NextText]_vars

\* Every state an element can be in, as isElementVisible reads it.
AllVis ==
    [isConnected : BOOLEAN, offsetParent : {NULL, <<"body">>},
     styleDisplay : {"", "none", "block"}, styleVisibility : {"", "hidden"},
     width : {0, 100}, height : {0, 50}, computedThrows : BOOLEAN,
     computedDisplay : {"none", "block"},
     computedVisibility : {"visible", "hidden"}]

InitVisible ==
    /\ site = "generic"
    /\ href = PageUrl(site)
    /\ doc \in {<<Leaf("div", NoAttrs, {}, v, As(1))>> : v \in AllVis}
    /\ includeHtml = FALSE
    /\ treeWalker = TRUE
    /\ result = NULL
    /\ ScraperIdle

\* const visible = this.isElementVisible(element)
IsElementVisibleCall ==
    /\ result = NULL
    /\ result' = <<isElementVisible(doc[1])>>
    /\ UNCHANGED <<textCache, href, doc, site, includeHtml, showCheckboxes, treeWalker, heap,
                   content, pending, body, listeners, stale, held, op,
                   everResolved, destroyed>>

NextVisible == IsElementVisibleCall

SpecVisible == InitVisible /\ [][NextVisible]_vars

----------------------------------------------------------------------------
(* SpecDetect: one construction of a ContentScraper on a page whose address *)
(* is drawn from hosts and paths that do and do not name a supported site.  *)

Hosts ==
    {"news.ycombinator.com", "reddit.com", "www.reddit.com", "old.reddit.com",
     "twitter.com", "mobile.twitter.com", "x.com", "unknown-site.com",
     "example.com", "netflix.com", "notreddit.com", "nottwitter.com"}

PathsAndQueries ==
    {"", "/", "/item?id=123", "/r/programming", "/user/status/123",
     "/?ref=reddit.com", "/share?url=x.com", "/?via=news.ycombinator.com"}

Urls == {"https://" \o h \o p : h \in Hosts, p \in PathsAndQueries}

\* No scraper has been constructed yet.
InitDetect ==
    /\ href \in Urls
    /\ site = "none"
    /\ doc = <<>>
    /\ includeHtml = FALSE
    /\ treeWalker = TRUE
    /\ result = NULL
    /\ ScraperIdle

\* new ContentScraper()
Construct ==
    /\ site = "none"
    /\ site' = DetectSite(href)
    /\ UNCHANGED <<textCache, href, doc, includeHtml, showCheckboxes, treeWalker, heap,
                   content, pending, body, listeners, stale, held, op,
                   everResolved, destroyed, result>>

NextDetect == Construct

SpecDetect == InitDetect /\ [][NextDetect]_vars

----------------------------------------------------------------------------
(* SpecHash: one generateId call on one text. *)

\* The longest text of SpecHash drawn from HashAlphabet.
MaxHashLen == 7

\* 'a', 'z' and the largest UTF-16 code unit.
HashAlphabet == {97, 122, 65535}

\* "GydZG_", whose hash is the 32-bit pattern 0x80000000.
MinValueText == <<71, 121, 100, 90, 71, 95>>

InitHash ==
    /\ site = "generic"
    /\ href = PageUrl(site)
    /\ doc \in {<<Text(t)>> : t \in SeqUpTo(HashAlphabet, MaxHashLen) \cup {MinValueText}}
    /\ includeHtml = FALSE
    /\ treeWalker = TRUE
    /\ result = NULL
    /\ ScraperIdle

\* const id = this.generateId(text)
GenerateIdCall ==
    /\ result = NULL
    /\ result' = <<generateId(doc[1].data)>>
    /\ UNCHANGED <<textCache, href, doc, site, includeHtml, showCheckboxes, treeWalker, heap,
                   content, pending, body, listeners, stale, held, op,
                   everResolved, destroyed>>

NextHash == GenerateIdCall

SpecHash == InitHash /\ [][NextHash]_vars

----------------------------------------------------------------------------
(* SpecWalk: one extractTextFromElement call on one element of a small     *)
(* tree, in a host with and without a working TreeWalker.                  *)

\* The most child nodes of an element of SpecWalk.
MaxKids == 2

\* "a", " b ", " \n" and "a  b".
WalkTexts == {<<97>>, <<SPACE, 98, SPACE>>, <<SPACE, NEWLINE>>, <<97, SPACE, SPACE, 98>>}

\* <span> and <style> elements holding up to MaxKids text nodes.
WalkInner ==
    {Elem(tag, NoAttrs, {}, Visible, kids) :
        tag \in {"span", "style"},
        kids \in SeqUpTo({Text(t) : t \in WalkTexts}, MaxKids)}

\* <div> and <svg> elements holding up to MaxKids text nodes and elements.
WalkTrees ==
    {Elem(tag, NoAttrs, {}, Visible, kids) :
        tag \in {"div", "svg"},
        kids \in SeqUpTo({Text(t) : t \in WalkTexts} \cup WalkInner, MaxKids)}

InitWalk ==
    /\ site = "generic"
    /\ href = PageUrl(site)
    /\ doc \in {<<t>> : t \in WalkTrees}
    /\ includeHtml = FALSE
    /\ treeWalker \in BOOLEAN
    /\ result = NULL
    /\ ScraperIdle

\* const text = this.extractTextFromElement(element), for the element at
\* the k-th element path of the document.
ExtractTextCall(k) ==
    /\ result = NULL
    /\ LET p == ElementPaths(doc)[k]
       IN  result' = <<[path |-> p,
                        text |-> extractTextFromElement(doc, p, treeWalker)]>>
    /\ textCache' = CacheAfterCalls(textCache,
                       extractTextFromElementCalls(doc, ElementPaths(doc)[k],
                                                   treeWalker))
    /\ UNCHANGED <<href, doc, site, includeHtml, showCheckboxes, treeWalker, heap,
                   content, pending, body, listeners, stale, held, op,
                   everResolved, destroyed>>

NextWalk == \E k \in 1..Len(ElementPaths(doc)) : ExtractTextCall(k)

SpecWalk == InitWalk /\ [][NextWalk]_vars

----------------------------------------------------------------------------
(* SpecCache: a sequence of cleanText calls on one extractor, with its     *)
(* text cache.                                                             *)

\* The number of different texts the caller of SpecCache has.
MaxCacheTexts == 102

\* The k-th text of the caller: a blank and k letters.
CacheText(k) == <<SPACE>> \o As(k)

\* The texts the caller passes next: the first of its texts that is not
\* cached, and the first and the last of them that are.
NextTexts(c) ==
    LET all == 1..MaxCacheTexts
        in == {k \in all : CacheHas(c, CacheText(k))}
        out == all \ in
        first(S) == {k \in S : \A j \in S : k <= j}
        last(S) == {k \in S : \A j \in S : k >= j}
    IN  {CacheText(k) : k \in first(out) \cup first(in) \cup last(in)}

InitCache ==
    /\ site = "generic"
    /\ href = PageUrl(site)
    /\ doc = <<>>
    /\ includeHtml = FALSE
    /\ treeWalker = TRUE
    /\ result = NULL
    /\ ScraperIdle

\* const cleaned = this.cleanText(text), with the cache.  The result records
\* the argument, the value returned, whether it came from the cache, the
\* cache before the call and whether the cache was ever cleared.
CleanTextCached(text) ==
    LET hit == CacheHas(textCache, text)
        clears == ~hit /\ CacheFull(textCache)
        cleaned == cleanText(text)
    IN  /\ textCache' = CacheAfterCleanText(textCache, text)
        /\ result' = <<[text |-> text,
                        value |-> IF hit THEN CacheGet(textCache, text) ELSE cleaned,
                        hit |-> hit,
                        before |-> textCache,
                        cleared |-> clears \/ (result # NULL /\ result[1].cleared)]>>
        /\ UNCHANGED <<href, doc, site, includeHtml, showCheckboxes, treeWalker,
                       heap, content, pending, body, listeners, stale, held, op,
                       everResolved, destroyed>>

NextCache == \E text \in NextTexts(textCache) : CleanTextCached(text)

SpecCache == InitCache /\ [][NextCache]_vars

----------------------------------------------------------------------------
(* Objects.  ContentItem objects live in heap; content, the checkbox nodes *)
(* and a client's copy hold object ids, so that two holders of one object  *)
(* see each other's writes to selected.                                    *)

\* The n lowest object ids not used in h, in increasing order.
NewIds(h, n) ==
    LET free == (1..(Cardinality(DOMAIN h) + n)) \ DOMAIN h
    IN  [k \in 1..n |-> CHOOSE x \in free : Cardinality({y \in free : y < x}) = k - 1]

\* h with the objects of the sequence items stored under the ids.
Allocate(h, ids, items) ==
    [o \in DOMAIN h \cup {ids[k] : k \in 1..Len(ids)} |->
        IF o \in DOMAIN h THEN h[o]
        ELSE items[CHOOSE k \in 1..Len(ids) : ids[k] = o]]

Range(seq) == {seq[k] : k \in 1..Len(seq)}

\* Garbage collection: the objects that the content c, the checkbox nodes b
\* or the client's copy hd still refer to are kept and numbered in the order
\* of these references; the references are renumbered with them.
Collect(h, c, b, hd) ==
    LET refs == (IF c = NULL THEN <<>> ELSE c[1])
                \o [k \in 1..Len(b) |-> b[k].item]
                \o (IF hd = NULL THEN <<>> ELSE hd[1])
        live == Range(refs)
        First(o) == CHOOSE i \in 1..Len(refs) :
                        refs[i] = o /\ \A j \in 1..(i - 1) : refs[j] # o
        Rank(o) == Cardinality({q \in live : First(q) <= First(o)})
        Renumber(seq) == [k \in 1..Len(seq) |-> Rank(seq[k])]
    IN  [heap |-> [n \in 1..Cardinality(live) |-> h[CHOOSE o \in live : Rank(o) = n]],
         content |-> IF c = NULL THEN NULL ELSE <<Renumber(c[1])>>,
         body |-> [k \in 1..Len(b) |-> [b[k] EXCEPT !.item = Rank(b[k].item)]],
         held |-> IF hd = NULL THEN NULL ELSE <<Renumber(hd[1])>>]

\* The heap, the content, the checkbox nodes and the client's copy become
\* those of h, c, b, hd without the garbage.
Store(h, c, b, hd) ==
    LET kept == Collect(h, c, b, hd)
    IN  /\ heap' = kept.heap
        /\ content' = kept.content
        /\ body' = kept.body
        /\ held' = kept.held

----------------------------------------------------------------------------
(* UIManager.  A checkbox node is [item, checked, tracked, entry]: the item *)
(* its click listener closes over, whether it shows the checkmark, whether  *)
(* the checkboxes map (keyed by item.element) holds it, and for a node of   *)
(* the map the place of its key in the map's order, which is the order in   *)
(* which the keys were first set (0 for a node the map does not hold).      *)

\* UIManager.destroy: every checkbox of the map leaves the document.
UIDestroy(b) ==
    LET untracked(n) == ~n.tracked
    IN  SelectSeq(b, untracked)

\* UIManager.displayCheckboxes(items): destroy(), then one checkbox per item
\* with an element, appended to the body and stored in the map under the
\* item's element (a later item with the same element takes the entry).
UIDisplayCheckboxes(h, b, items) ==
    LET hasElement(o) == h[o].element # NULL
        shown == SelectSeq(items, hasElement)
        same(k) == {j \in 1..Len(shown) : h[shown[j]].element = h[shown[k]].element}
        last(k) == \A j \in same(k) : j <= k
        first(k) == CHOOSE i \in same(k) : \A j \in same(k) : i <= j
        node(k) == [item |-> shown[k],
                    checked |-> h[shown[k]].selected,
                    tracked |-> last(k),
                    entry |-> IF last(k) THEN first(k) ELSE 0]
    IN  UIDestroy(b) \o [k \in 1..Len(shown) |-> node(k)]

\* toggleSelection, first half: the item's flag flips.
ToggleItem(h, o) == [h EXCEPT ![o].selected = ~h[o].selected]

\* toggleSelection, second half: the checkbox the map holds for the item's
\* element shows the item's new state (h: the heap after the flip).
UpdateCheckboxVisual(h, b, o) ==
    [k \in 1..Len(b) |->
        IF b[k].tracked /\ h[b[k].item].element = h[o].element
        THEN [b[k] EXCEPT !.checked = h[o].selected]
        ELSE b[k]]

\* UIManager.getSelectedItems: the selected items of the map, in the order
\* of this.checkboxes.forEach, which is the order of the map's keys.
getSelectedItems(h, b) ==
    LET sel(n) == n.tracked /\ h[n.item].selected
        earlier(m, n) == m.entry < n.entry
        nodes == SortSeq(SelectSeq(b, sel), earlier)
    IN  [k \in 1..Len(nodes) |-> nodes[k].item]

----------------------------------------------------------------------------
(* ContentScraper *)

\* The handler the constructor registers with the UIManager:
\* item.selected = selectedItems.some(selected => selected.id === item.id)
\* for every item of this.content (not null here).
UpdateContentSelection(h, c, selectedItems) ==
    [o \in DOMAIN h |->
        IF o \in Range(c[1])
        THEN [h[o] EXCEPT !.selected =
                 \E k \in 1..Len(selectedItems) : h[selectedItems[k]].id = h[o].id]
        ELSE h[o]]

\* The selected flags of the items of a Content, in order.
Flags(h, items) == [k \in 1..Len(items) |-> h[items[k]].selected]

\* What the handler does on the UIManager's selectionChanged event: the
\* heap afterwards, how often each of the n callbacks registered with
\* ContentScraper.on ran, and the selected flags of the Content passed.
OnSelectionChanged(h, c, selectedItems, n) ==
    IF c # NULL
    THEN LET h2 == UpdateContentSelection(h, c, selectedItems)
         IN  [heap |-> h2, calls |-> [l \in 1..n |-> 1], detail |-> <<Flags(h2, c[1])>>]
    ELSE [heap |-> h, calls |-> [l \in 1..n |-> 0], detail |-> NULL]

\* getContent() returning the scraper's own item objects in a new array.
GetContentSameItems(h, c) ==
    IF c = NULL THEN [heap |-> h, value |-> NULL]
    ELSE [heap |-> h, value |-> <<c[1]>>]

\* getContent(): null, or a new array of new item objects ({...item}).
GetContent(h, c) ==
    IF c = NULL THEN [heap |-> h, value |-> NULL]
    ELSE LET ids == NewIds(h, Len(c[1]))
         IN  [heap |-> Allocate(h, ids, [k \in 1..Len(ids) |-> h[c[1][k]]]),
              value |-> <<ids>>]

\* What a client observes: what getContent() reports of the selection, and
\* which checkboxes of the document show the checkmark.
ContentView == IF content = NULL THEN NULL ELSE <<Flags(heap, content[1])>>
Checkmarks == [k \in 1..Len(body) |-> body[k].checked]
Snapshot == [selected |-> ContentView, checked |-> Checkmarks]

MaxPageLen == 2
MaxPending == 1
MaxListeners == 2

\* The most checkboxes that no longer belong to the UIManager's map and
\* stay in the document (run() and displayCheckboxes() are not taken when
\* they would leave more).
MaxOrphans == 1

\* <table class="comment-tree"><tr class="athing comtr">
\*   <span class="titleline"><a href>title</a></span>
\*   <span class="comhead">age link</span><div class="commtext">text</div></tr></table>:
\* a comment row that also holds a title link, so that the post built from
\* the link (element: its closest .athing) and the comment built from the
\* row have the same element.
HNThreadRow(title, text) ==
    Elem("table", NoAttrs, {"comment-tree"}, Visible,
         <<Elem("tr", NoAttrs, {"athing", "comtr"}, Visible,
                <<Elem("span", NoAttrs, {"titleline"}, Visible,
                       <<Leaf("a", WithAttr("href", "story"), {}, Visible, title)>>),
                  Elem("span", NoAttrs, {"comhead"}, Visible, <<AgeLink("comment")>>),
                  Leaf("div", NoAttrs, {"commtext"}, Visible, text)>>)>>)

\* The pages of Spec: up to MaxPageLen visible elements the site's extractor
\* turns into items; two elements can have the same text, and on Hacker
\* News one row can give two items.
PageShapes(s) ==
    CASE s = "hackernews" -> {HNThreadRow(As(11), Bs(11))}
      [] s = "reddit" ->
             {Leaf("div", WithAttr("slot", "comment"), {}, Visible, As(11))}
      [] s = "twitter" -> {TweetArticle(Visible, As(6))}
      [] OTHER ->
             {Leaf("article", NoAttrs, {}, Visible, t) : t \in {As(21), Bs(21)}}

\* The nodes of b the map does not hold.
Orphans(b) ==
    LET untracked(n) == ~n.tracked
    IN  SelectSeq(b, untracked)

\* new ContentScraper(options)
Init ==
    /\ href \in {PageUrl(s) : s \in Sites}
    /\ site = DetectSite(href)
    /\ textCache = <<>>
    /\ doc \in SeqUpTo(PageShapes(site), MaxPageLen)
    /\ includeHtml = FALSE
    /\ treeWalker = TRUE
    /\ showCheckboxes \in BOOLEAN
    /\ heap = <<>>
    /\ content = NULL
    /\ pending = <<>>
    /\ body = <<>>
    /\ listeners = 0
    /\ stale = 0
    /\ held = NULL
    /\ op = Did("none")
    /\ everResolved = FALSE
    /\ destroyed = FALSE
    /\ result = NULL

\* run() is called: extract() runs to its end, and run() waits for the
\* promise it returned.
Run ==
    /\ Len(pending) < MaxPending
    /\ pending' = Append(pending,
                          [error |-> NULL,
                           items |-> Extract(site, doc, includeHtml, treeWalker)])
    /\ destroyed' = FALSE
    /\ op' = Did("run")
    /\ textCache' = ExtractCache(textCache, site, doc, treeWalker)
    /\ UNCHANGED <<href, doc, site, includeHtml, showCheckboxes, treeWalker, heap,
                   content, body, listeners, stale, held, everResolved, result>>

\* run() continuing after the await as if extract() handed back the flags
\* of the items it replaces: an item whose id was selected stays selected.
RunResolveKeepSelection ==
    /\ pending # <<>>
    /\ Head(pending).error = NULL
    /\ LET WasSelected(id) ==
               /\ content # NULL
               /\ \E j \in 1..Len(content[1]) :
                      heap[content[1][j]].id = id /\ heap[content[1][j]].selected
           items == [k \in 1..Len(Head(pending).items) |->
                        [Head(pending).items[k] EXCEPT
                            !.selected = WasSelected(Head(pending).items[k].id)]]
           ids == NewIds(heap, Len(items))
           h == Allocate(heap, ids, items)
           b == IF Len(ids) > 0 /\ showCheckboxes
                THEN UIDisplayCheckboxes(h, body, ids) ELSE body
       IN  /\ Len(Orphans(b)) <= MaxOrphans
           /\ Store(h, <<ids>>, b, held)
    /\ pending' = Tail(pending)
    /\ everResolved' = TRUE
    /\ op' = [Did("resolve") EXCEPT !.pre = <<Snapshot>>]
    /\ UNCHANGED <<textCache, href, doc, site, includeHtml, showCheckboxes, treeWalker,
                   listeners, stale, destroyed, result>>

\* run() continues after the await: this.content = the extracted Content,
\* and the checkboxes are displayed if it has items and showCheckboxes is set.
RunResolve ==
    /\ pending # <<>>
    /\ Head(pending).error = NULL
    /\ LET items == Head(pending).items
           ids == NewIds(heap, Len(items))
           h == Allocate(heap, ids, items)
           b == IF Len(ids) > 0 /\ showCheckboxes
                THEN UIDisplayCheckboxes(h, body, ids) ELSE body
       IN  /\ Len(Orphans(b)) <= MaxOrphans
           /\ Store(h, <<ids>>, b, held)
    /\ pending' = Tail(pending)
    /\ everResolved' = TRUE
    /\ op' = [Did("resolve") EXCEPT !.pre = <<Snapshot>>]
    /\ UNCHANGED <<textCache, href, doc, site, includeHtml, showCheckboxes, treeWalker,
                   listeners, stale, destroyed, result>>

\* run() is called and the promise of extract() will reject with error e:
\* extract() threw e at some point of its body, after any number of its
\* cleanText calls, which have filled the cache.
RunFails(e) ==
    /\ Len(pending) < MaxPending
    /\ pending' = Append(pending, [error |-> <<e>>, items |-> <<>>])
    /\ destroyed' = FALSE
    /\ op' = Did("run")
    /\ LET calls == ExtractCleanTextCalls(site, doc, treeWalker)
       IN  \E n \in 0..Len(calls) :
               textCache' = CacheAfterCalls(textCache, SubSeq(calls, 1, n))
    /\ UNCHANGED <<href, doc, site, includeHtml, showCheckboxes, treeWalker, heap,
                   content, body, listeners, stale, held, everResolved, result>>

\* run() after a rejected await as if it stored an empty Content before it
\* rethrows.
RunRejectStoresEmpty ==
    /\ pending # <<>>
    /\ Head(pending).error # NULL
    /\ Store(heap, <<<<>>>>, body, held)
    /\ pending' = Tail(pending)
    /\ op' = [Did("reject") EXCEPT !.pre = <<Snapshot>>,
                                   !.error = Head(pending).error]
    /\ UNCHANGED <<textCache, href, doc, site, includeHtml, showCheckboxes, treeWalker,
                   listeners, stale, everResolved, destroyed, result>>

\* run() continues after the await threw: the catch block logs the error
\* and rethrows it; the assignment to this.content was never reached.
RunReject ==
    /\ pending # <<>>
    /\ Head(pending).error # NULL
    /\ pending' = Tail(pending)
    /\ op' = [Did("reject") EXCEPT !.pre = <<Snapshot>>,
                                   !.error = Head(pending).error]
    /\ UNCHANGED <<textCache, href, doc, site, includeHtml, showCheckboxes, treeWalker, heap,
                   content, body, listeners, stale, held, everResolved,
                   destroyed, result>>

\* displayCheckboxes()
DisplayCheckboxes ==
    /\ LET b == IF content # NULL /\ Len(content[1]) > 0
                THEN UIDisplayCheckboxes(heap, body, content[1]) ELSE body
       IN  /\ Len(Orphans(b)) <= MaxOrphans
           /\ Store(heap, content, b, held)
    /\ op' = Did("display")
    /\ UNCHANGED <<textCache, href, doc, site, includeHtml, showCheckboxes, treeWalker,
                   pending, listeners, stale, everResolved, destroyed, result>>

\* on('selectionChanged', callback)
On ==
    /\ listeners < MaxListeners
    /\ listeners' = listeners + 1
    /\ op' = Did("on")
    /\ UNCHANGED <<textCache, href, doc, site, includeHtml, showCheckboxes, treeWalker, heap,
                   content, pending, body, stale, held, everResolved, destroyed,
                   result>>

\* destroy(): uiManager.destroy(), this.content = null.
Destroy ==
    /\ Store(heap, NULL, UIDestroy(body), held)
    /\ stale' = listeners
    /\ destroyed' = TRUE
    /\ op' = Did("destroy")
    /\ UNCHANGED <<textCache, href, doc, site, includeHtml, showCheckboxes, treeWalker, pending,
                   listeners, everResolved, result>>

\* The index of object o in the items of content c, 0 if it is none of them.
IndexIn(c, o) ==
    IF c # NULL /\ o \in Range(c[1])
    THEN CHOOSE i \in 1..Len(c[1]) : c[1][i] = o
    ELSE 0

\* A click on the k-th checkbox of the document: toggleSelection(item) of
\* the UIManager, whose selectionChanged event runs the scraper's handler.
Click(k) ==
    LET o == body[k].item
        h1 == ToggleItem(heap, o)
        b1 == UpdateCheckboxVisual(h1, body, o)
        handled == OnSelectionChanged(h1, content, getSelectedItems(h1, b1), listeners)
        again == op.name = "click" /\ op.node = k
    IN  /\ heap' = handled.heap
        /\ body' = b1
        /\ op' = [name |-> "click", node |-> k, index |-> IndexIn(content, o),
                  pre |-> <<Snapshot>>, calls |-> handled.calls,
                  detail |-> handled.detail, again |-> again,
                  before |-> IF again THEN op.pre ELSE NULL, error |-> NULL]
        /\ UNCHANGED <<textCache, href, doc, site, includeHtml, showCheckboxes, treeWalker,
                       content, pending, listeners, stale, held, everResolved,
                       destroyed, result>>

\* const copy = scraper.getContent()
CallGetContent ==
    /\ LET got == GetContent(heap, content)
       IN  Store(got.heap, content, body, got.value)
    /\ op' = Did("getContent")
    /\ UNCHANGED <<textCache, href, doc, site, includeHtml, showCheckboxes, treeWalker,
                   pending, listeners, stale, everResolved, destroyed, result>>

\* copy.items[i].selected = !copy.items[i].selected
ClientSetSelected(i) ==
    /\ heap' = ToggleItem(heap, held[1][i])
    /\ op' = [Did("client") EXCEPT !.pre = <<Snapshot>>]
    /\ UNCHANGED <<textCache, href, doc, site, includeHtml, showCheckboxes, treeWalker, content,
                   pending, body, listeners, stale, held, everResolved,
                   destroyed, result>>

\* copy.items.pop()
ClientPop ==
    /\ held # NULL
    /\ Len(held[1]) > 0
    /\ Store(heap, content, body, <<SubSeq(held[1], 1, Len(held[1]) - 1)>>)
    /\ op' = [Did("client") EXCEPT !.pre = <<Snapshot>>]
    /\ UNCHANGED <<textCache, href, doc, site, includeHtml, showCheckboxes, treeWalker,
                   pending, listeners, stale, everResolved, destroyed, result>>

Next ==
    \/ Run
    \/ RunResolve
    \/ DisplayCheckboxes
    \/ On
    \/ Destroy
    \/ \E k \in 1..Len(body) : Click(k)

Spec == Init /\ [][Next]_vars

NextCopy ==
    \/ Run
    \/ RunResolve
    \/ DisplayCheckboxes
    \/ Destroy
    \/ (\E k \in 1..Len(body) : Click(k))
    \/ CallGetContent
    \/ (held # NULL /\ \E i \in 1..Len(held[1]) : ClientSetSelected(i))
    \/ ClientPop

SpecCopy == Init /\ [][NextCopy]_vars

----------------------------------------------------------------------------
(* SpecUI: a client that calls displayCheckboxes(items) and destroy() of   *)
(* one UIManager with items of its own.                                    *)

\* The number of item objects the client of SpecUI has.
MaxUIItems == 2

\* The most checkbox nodes in the document of SpecUI.
MaxBodyLen == 3

\* item.element of a client's item: none, or one of two elements.
UIElements == {NULL, <<1>>, <<2>>}

UIItem(element) == Item(<<49>>, element, <<97>>, Undefined, "post", Undefined)

InitUI ==
    /\ site = "generic"
    /\ href = PageUrl(site)
    /\ textCache = <<>>
    /\ doc = <<>>
    /\ includeHtml = FALSE
    /\ treeWalker = TRUE
    /\ showCheckboxes = FALSE
    /\ heap \in [1..MaxUIItems -> {UIItem(e) : e \in UIElements}]
    /\ content = NULL
    /\ pending = <<>>
    /\ body = <<>>
    /\ listeners = 0
    /\ stale = 0
    /\ held = NULL
    /\ op = Did("none")
    /\ everResolved = FALSE
    /\ destroyed = FALSE
    /\ result = NULL

\* uiManager.displayCheckboxes(items)
UIDisplayCall(items) ==
    /\ Len(UIDisplayCheckboxes(heap, body, items)) <= MaxBodyLen
    /\ body' = UIDisplayCheckboxes(heap, body, items)
    /\ op' = [Did("uiDisplay") EXCEPT !.detail = <<items>>]
    /\ UNCHANGED <<textCache, href, doc, site, includeHtml, showCheckboxes,
                   treeWalker, heap, content, pending, listeners, stale, held,
                   everResolved, destroyed, result>>

\* uiManager.destroy()
UIDestroyCall ==
    /\ body' = UIDestroy(body)
    /\ op' = Did("uiDestroy")
    /\ UNCHANGED <<textCache, href, doc, site, includeHtml, showCheckboxes,
                   treeWalker, heap, content, pending, listeners, stale, held,
                   everResolved, destroyed, result>>

NextUI ==
    \/ \E items \in SeqUpTo(DOMAIN heap, MaxUIItems) : UIDisplayCall(items)
    \/ UIDestroyCall

SpecUI == InitUI /\ [][NextUI]_vars

\* The errors an extract() call of SpecFail can throw.
Errors == {"TypeError", "DOMException"}

\* Spec with extract() calls that fail.
NextFail ==
    \/ Run
    \/ (\E e \in Errors : RunFails(e))
    \/ RunResolve
    \/ RunReject
    \/ DisplayCheckboxes
    \/ Destroy
    \/ (\E k \in 1..Len(body) : Click(k))

SpecFail == Init /\ [][NextFail]_vars

----------------------------------------------------------------------------
(* Claims about extract(), checked under SpecExtract. *)

Items == result[1]

\* The items of the pass over the prioritized selector list.
PrioritizedItems ==
    IF site = "twitter" THEN TwitterTweetItems(doc, includeHtml, treeWalker)
    ELSE GenericItems(doc, GenericFoundElements(doc), includeHtml, treeWalker)

PrioritySelectors == IF site = "twitter" THEN TwitterSelectors ELSE GenericSelectors

\* The selectors of the priority list that match at least one element.
MatchingSelectors ==
    {k \in 1..Len(PrioritySelectors) :
        querySelectorAll(doc, PrioritySelectors[k]) # <<>>}

FirstMatchingSelector ==
    PrioritySelectors[CHOOSE k \in MatchingSelectors : \A j \in MatchingSelectors : k <= j]

FallbackSelector == IF site = "twitter" THEN ArticleSelector ELSE ParagraphSelector

\* The length filter of the fallback pass.
FallbackLengthOk(n) ==
    IF site = "twitter"
    THEN n > TwitterArticleMinLength /\ n < TwitterArticleMaxLength
    ELSE n > GenericParagraphMinLength /\ n > GenericMinLength

\* C1: no item of any strategy's result has as its element an element with
\* inline display:none or with a bounding box of zero width or height.
C1_NoHiddenElementInResult ==
    result # NULL =>
        \A i \in 1..Len(Items) :
            LET v == NodeAt(doc, Items[i].element).vis
            IN  v.styleDisplay # "none" /\ v.width # 0 /\ v.height # 0

\* C8: any two different items of one extraction result have different ids.
C8_IdsAreUnique ==
    result # NULL =>
        \A i, j \in 1..Len(Items) : i # j => Items[i].id # Items[j].id

\* C9: in the Twitter/X and Generic strategies, when several selectors of
\* the priority list match, every item of the prioritized pass comes from an
\* element the first matching selector matches (so an element matched only
\* by later selectors gives no item), and these items are the result
\* whenever there are any.
C9_FirstMatchingSelectorOnly ==
    (result # NULL /\ site \in {"twitter", "generic"}
        /\ Cardinality(MatchingSelectors) >= 2) =>
        /\ \A i \in 1..Len(PrioritizedItems) :
               Matches(doc, PrioritizedItems[i].element, FirstMatchingSelector)
        /\ PrioritizedItems # <<>> => Items = PrioritizedItems

\* C9 witness: two selectors match, the result holds an item, and a visible
\* element with enough text that only a later selector matches is not in it.
C9_Witness ==
    /\ result # NULL /\ site = "twitter"
    /\ Cardinality(MatchingSelectors) >= 2
    /\ Len(Items) >= 1
    /\ \E p \in {ElementPaths(doc)[k] : k \in 1..Len(ElementPaths(doc))} :
          /\ ~Matches(doc, p, FirstMatchingSelector)
          /\ \E k \in MatchingSelectors : Matches(doc, p, PrioritySelectors[k])
          /\ isElementVisible(NodeAt(doc, p))
          /\ Len(extractTextFromElement(doc, p, treeWalker)) > TwitterMinLength
          /\ \A i \in 1..Len(Items) : Items[i].element # p

\* C10: in the Generic and Twitter/X strategies, whenever the prioritized
\* pass produces no item, every element of the fallback selector that is
\* visible and passes the length filter is the element of an item.
C10_FallbackWhenNoPrioritizedItem ==
    (result # NULL /\ site \in {"twitter", "generic"} /\ PrioritizedItems = <<>>) =>
        \A k \in 1..Len(querySelectorAll(doc, FallbackSelector)) :
            LET p == querySelectorAll(doc, FallbackSelector)[k]
            IN  (/\ isElementVisible(NodeAt(doc, p))
                 /\ FallbackLengthOk(Len(extractTextFromElement(doc, p, treeWalker))))
                => \E i \in 1..Len(Items) : Items[i].element = p

\* The position of the element at path p in document order.
DocIndex(p) == CHOOSE k \in 1..Len(ElementPaths(doc)) : ElementPaths(doc)[k] = p

\* The items i < j of the result are of one type and in document order.
InDocOrder(i, j) == DocIndex(Items[i].element) < DocIndex(Items[j].element)

\* C11: in the Reddit strategy's result every comment item precedes every
\* post item, whatever the order of the elements in the document, and the
\* items of one kind are in document order.
C11_RedditCommentsBeforePosts ==
    (result # NULL /\ site = "reddit") =>
        \A i, j \in 1..Len(Items) :
            i < j =>
                /\ Items[i].type = "post" => Items[j].type = "post"
                /\ Items[i].type = Items[j].type => InDocOrder(i, j)

\* C11 witness: the result holds a comment and a post whose element stands
\* before the comment's in the document.
C11_Witness ==
    /\ result # NULL /\ site = "reddit"
    /\ \E i, j \in 1..Len(Items) :
          /\ Items[i].type = "comment" /\ Items[j].type = "post"
          /\ DocIndex(Items[j].element) < DocIndex(Items[i].element)

\* The Hacker News page has no visible .toptext: a URL-only submission.
HNUrlOnly ==
    \/ querySelector(doc, HNPostSelector) = NULL
    \/ ~isElementVisible(NodeAt(doc, querySelector(doc, HNPostSelector)))

\* The visible title links of the page, in document order.
HNVisibleTitleLinks ==
    LET visible(p) == isElementVisible(NodeAt(doc, p))
    IN  SelectSeq(querySelectorAll(doc, HNTitleLinkSelector), visible)

\* C12: the Hacker News result has at most one post item; it is at index 0
\* and the comment items follow it in document order; for a URL-only
\* submission the post comes from the first visible title link, and no
\* later title link yields an item.
C12_HNOnePostFirst ==
    (result # NULL /\ site = "hackernews") =>
        /\ \A i \in 1..Len(Items) : Items[i].type = "post" => i = 1
        /\ \A i, j \in 1..Len(Items) :
               (i < j /\ Items[i].type = "comment") => InDocOrder(i, j)
        /\ (HNUrlOnly /\ Len(Items) > 0 /\ Items[1].type = "post") =>
               IsPrefix(Items[1].element, HNVisibleTitleLinks[1])

\* The elements the Reddit strategy looks at: comments, then post bodies.
RedditCandidates ==
    querySelectorAll(doc, RedditCommentSelector)
    \o querySelectorAll(doc, RedditPostSelector)

\* The element at path p is the element of an item of the sequence items.
IsElementOf(p, items) == \E i \in 1..Len(items) : items[i].element = p

\* The visible Reddit candidates are admitted by the extractor that
\* returned items exactly when their text is longer than 5 characters.
RedditAdmitsOver5(items) ==
    \A k \in 1..Len(RedditCandidates) :
        LET p == RedditCandidates[k]
        IN  isElementVisible(NodeAt(doc, p)) =>
                (IsElementOf(p, items)
                    <=> Len(extractTextFromElement(doc, p, treeWalker)) > 5)

\* C16: in the Reddit strategy a visible comment or post body is admitted
\* exactly when its normalized text is longer than 5 characters (5: no
\* item, 6: an item), in both copies of the Reddit extractor.
C16_RedditAdmitsOver5 ==
    (result # NULL /\ site = "reddit") =>
        /\ RedditAdmitsOver5(Items)
        /\ RedditAdmitsOver5(RedditExtractV1(doc, includeHtml, treeWalker))

\* C17: in the Twitter/X strategy a tweet whose extracted tweet text has 5
\* characters or fewer is skipped: the tweet's element is never the element
\* of an item of the result.
C17_ShortTweetNeverAnItem ==
    (result # NULL /\ site = "twitter") =>
        \A k \in 1..Len(TwitterTweetElements(doc)) :
            LET p == TwitterTweetElements(doc)[k]
                text == extractTextFromElement(doc, TwitterTextElement(doc, p),
                                               treeWalker)
            IN  Len(text) <= 5 => ~IsElementOf(p, Items)

\* C18: the Twitter/X article fallback contributes items only when the
\* prioritized pass produced no item, and then admits a visible article
\* exactly when its text is longer than 20 and shorter than 2000
\* characters; a result never mixes prioritized and fallback items.
C18_TwitterFallbackOnlyWhenEmpty ==
    (result # NULL /\ site = "twitter") =>
        IF PrioritizedItems # <<>>
        THEN Items = PrioritizedItems
        ELSE /\ \A i \in 1..Len(Items) :
                    Matches(doc, Items[i].element, ArticleSelector)
             /\ \A k \in 1..Len(querySelectorAll(doc, ArticleSelector)) :
                    LET p == querySelectorAll(doc, ArticleSelector)[k]
                        n == Len(extractTextFromElement(doc, p, treeWalker))
                    IN  IsElementOf(p, Items) <=>
                            (isElementVisible(NodeAt(doc, p)) /\ n > 20 /\ n < 2000)

\* C18 witness: a fallback result that holds an article of 1999 characters
\* and leaves out a visible article of 2000 characters.
C18_Witness ==
    /\ result # NULL /\ site = "twitter"
    /\ PrioritizedItems = <<>>
    /\ \E i \in 1..Len(Items) : Len(Items[i].textContent) = 1999
    /\ \E k \in 1..Len(querySelectorAll(doc, ArticleSelector)) :
          LET p == querySelectorAll(doc, ArticleSelector)[k]
          IN  /\ isElementVisible(NodeAt(doc, p))
              /\ Len(extractTextFromElement(doc, p, treeWalker)) = 2000
              /\ ~IsElementOf(p, Items)


----------------------------------------------------------------------------
(* Claims about cleanText, checked under SpecText, and about                *)
(* isElementVisible, checked under SpecVisible.                             *)

\* C13: text normalization is idempotent: cleanText(cleanText(s)) equals
\* cleanText(s) for every string s over spaces, tabs, newlines and
\* non-whitespace characters.
C13_CleanTextIdempotent ==
    result # NULL => cleanText(result[1]) = result[1]

\* C13 witness: a text with blanks inside and newlines that cleanText
\* changed without emptying it.
C13_Witness ==
    /\ result # NULL
    /\ result[1] # <<>>
    /\ result[1] # doc[1].data
    /\ \E i \in 1..Len(result[1]) : result[1][i] = SPACE
    /\ \E i \in 1..Len(result[1]) : result[1][i] = NEWLINE

\* C14: the result of cleanText has no tab, no two adjacent spaces, no two
\* newlines with only whitespace between them other than two adjacent
\* newlines (so never three newlines in a row), and no leading or trailing
\* whitespace; an empty or whitespace-only input gives the empty string.
C14_CleanTextShape ==
    result # NULL =>
        LET r == result[1]
            s == doc[1].data
        IN  /\ \A i \in 1..Len(r) : r[i] # TAB
            /\ \A i \in 1..(Len(r) - 1) : ~(r[i] = SPACE /\ r[i + 1] = SPACE)
            /\ \A i, j \in 1..Len(r) :
                   (/\ i < j /\ r[i] = NEWLINE /\ r[j] = NEWLINE
                    /\ \A k \in i..j : IsSpace(r[k])) => j = i + 1
            /\ r # <<>> => (~IsSpace(r[1]) /\ ~IsSpace(r[Len(r)]))
            /\ (\A i \in 1..Len(s) : IsSpace(s[i])) => r = <<>>

\* C14 witness: an input with a tab, with whitespace at an end and with a
\* blank line of whitespace, cleaned to a text that keeps a blank line.
C14_Witness ==
    /\ result # NULL
    /\ \E i \in 1..Len(doc[1].data) : doc[1].data[i] = TAB
    /\ IsSpace(doc[1].data[1])
    /\ \E i \in 1..(Len(doc[1].data) - 2) :
          /\ doc[1].data[i] = NEWLINE /\ IsBlank(doc[1].data[i + 1])
          /\ doc[1].data[i + 2] = NEWLINE
    /\ \E i \in 1..(Len(result[1]) - 1) :
          result[1][i] = NEWLINE /\ result[1][i + 1] = NEWLINE

\* The element of SpecVisible with its offsetParent set to parent.
WithOffsetParent(parent) == [doc[1] EXCEPT !.vis.offsetParent = parent]

\* C15: isElementVisible(e) is true exactly when e is connected, its inline
\* display is not none, its inline visibility is not hidden, its bounding
\* box has non-zero width and height, and the computed-style query throws
\* or the computed display is not none and the computed visibility is not
\* hidden; offsetParent never changes the result.
C15_VisibleExactlyWhen ==
    result # NULL =>
        LET v == doc[1].vis
        IN  /\ result[1] <=>
                  (/\ v.isConnected
                   /\ v.styleDisplay # "none"
                   /\ v.styleVisibility # "hidden"
                   /\ v.width # 0 /\ v.height # 0
                   /\ (\/ v.computedThrows
                       \/ (v.computedDisplay # "none"
                           /\ v.computedVisibility # "hidden")))
            /\ isElementVisible(WithOffsetParent(NULL)) = result[1]
            /\ isElementVisible(WithOffsetParent(<<"body">>)) = result[1]

\* C15 witness: an element without offsetParent found visible.
C15_Witness ==
    /\ result # NULL
    /\ doc[1].vis.offsetParent = NULL
    /\ result[1] = TRUE


----------------------------------------------------------------------------
(* Claims about ContentScraper and its checkboxes, checked under Spec and   *)
(* SpecCopy.                                                                *)

\* The last operation was a click on the checkbox of an item of the content.
ClickedItem == op.name = "click" /\ op.index > 0

\* C2: a click on the checkbox of item i flips the selected flag of item i
\* as getContent() reports it and leaves the selected flag of every other
\* item as it was, also when two items carry the same id.
C2_ClickFlipsOnlyItsItem ==
    ClickedItem =>
        \A j \in 1..Len(content[1]) :
            ContentView[1][j] = IF j = op.index
                                THEN ~op.pre[1].selected[1][j]
                                ELSE op.pre[1].selected[1][j]

\* C3: two consecutive clicks on the checkbox of a displayed item leave
\* every item's selected flag and the checkbox's checkmark as they were
\* before the first click.
C3_TwoClicksRestore ==
    (op.name = "click" /\ op.again) =>
        /\ ContentView = op.before[1].selected
        /\ Checkmarks[op.node] = op.before[1].checked[op.node]

\* C4: once run() has resolved and checkboxes are displayed, a click on a
\* checkbox of the document notifies each listener registered with
\* ContentScraper.on exactly once, and the Content passed has the selected
\* flags getContent() returns at that moment.
C4_ClickNotifiesEachListenerOnce ==
    (op.name = "click" /\ everResolved) =>
        \A l \in 1..listeners :
            /\ op.calls[l] = 1
            /\ op.detail # NULL
            /\ op.detail = ContentView

\* C5: after destroy() has returned, a callback registered before it is
\* never invoked again, also when run() and displayCheckboxes() are called
\* again and a checkbox is clicked.  (stale: the callbacks registered
\* before the last destroy(); ~destroyed: run() was called again since.)
C5_NoCallbackAfterDestroy ==
    (op.name = "click" /\ ~destroyed) => \A l \in 1..stale : op.calls[l] = 0

\* C6: getContent() returns null before any run() has resolved; after
\* destroy() has returned it returns null and no checkbox is in the
\* document until run() is called again, also when an earlier run() call
\* has not resolved yet.
C6_NullBeforeRunAndAfterDestroy ==
    /\ ~everResolved => ContentView = NULL
    /\ destroyed => (ContentView = NULL /\ body = <<>>)

\* C7: changing the items array, or the selected flag of an item, of a
\* Content that getContent() returned changes neither what a later
\* getContent() call returns nor which checkboxes show a checkmark.
C7_GetContentReturnsCopy ==
    op.name = "client" => <<Snapshot>> = op.pre

\* A client changed a Content it holds while the scraper has items and
\* their checkboxes are displayed.
C7_Witness ==
    /\ op.name = "client"
    /\ content # NULL
    /\ Len(content[1]) > 0
    /\ Len(body) > 0
    /\ held # NULL
    /\ ContentView # <<Flags(heap, held[1])>>

----------------------------------------------------------------------------
(* Claims about the constructor's site detection, checked under SpecDetect. *)

\* The host of an address: what follows "://" up to the first of / ? # :
HostOf(u) ==
    LET k == CHOOSE i \in 1..Len(u) :
                 /\ SubSeq(u, i, i + 2) = "://"
                 /\ \A j \in 1..(i - 1) : SubSeq(u, j, j + 2) # "://"
        r == SubSeq(u, k + 3, Len(u))
        ends == {i \in 1..Len(r) : SubSeq(r, i, i) \in {"/", "?", "#", ":"}}
    IN  IF ends = {} THEN r
        ELSE SubSeq(r, 1, (CHOOSE i \in ends : \A j \in ends : i <= j) - 1)

\* The page at address u is on domain d: its host is d or a subdomain of d.
OnDomain(u, d) ==
    LET h == HostOf(u)
    IN  \/ h = d
        \/ /\ Len(h) > Len(d)
           /\ SubSeq(h, Len(h) - Len(d), Len(h)) = "." \o d

\* C19: the constructor selects the Hacker News extractor exactly for pages
\* on news.ycombinator.com, the Reddit extractor exactly for pages on
\* reddit.com, the Twitter extractor exactly for pages on twitter.com or
\* x.com, and the Generic extractor on any other site.
C19_ExtractorBySite ==
    site # "none" =>
        /\ site = "hackernews" <=> OnDomain(href, "news.ycombinator.com")
        /\ site = "reddit" <=> OnDomain(href, "reddit.com")
        /\ site = "twitter" <=>
               (OnDomain(href, "twitter.com") \/ OnDomain(href, "x.com"))
        /\ site = "generic" <=>
               ~ \E d \in {"news.ycombinator.com", "reddit.com", "twitter.com",
                           "x.com"} : OnDomain(href, d)

----------------------------------------------------------------------------
(* Claims about the result a run() stores, checked under Spec. *)

\* C20: every run() stores a freshly extracted result whose items all have
\* selected = false: when a run() has resolved, getContent() reports every
\* item as unselected, whatever was selected in the result it replaces.
C20_RunStoresUnselectedItems ==
    op.name = "resolve" =>
        LET got == GetContent(heap, content)
        IN  /\ got.value # NULL
            /\ \A k \in 1..Len(got.value[1]) : ~got.heap[got.value[1][k]].selected

\* C20 witness: a run() resolved with items while an item of the result it
\* replaced was selected.
C20_Witness ==
    /\ op.name = "resolve"
    /\ content[1] # <<>>
    /\ op.pre[1].selected # NULL
    /\ \E j \in 1..Len(op.pre[1].selected[1]) : op.pre[1].selected[1][j]

----------------------------------------------------------------------------
(* Claims about a run() whose extract() fails, checked under SpecFail. *)

\* The error the rejected promise of run() carries, and the state its catch
\* block left behind.
Rejected == op.name = "reject"

\* C21: if extract() fails, run() rejects with that same error, and
\* afterwards getContent() returns what it returned before and no checkbox
\* has been added or removed: no partial result is stored.
C21_FailedRunStoresNothing ==
    Rejected =>
        /\ op.error # NULL /\ op.error[1] \in Errors
        /\ <<Snapshot>> = op.pre
        /\ GetContent(heap, content).value = NULL <=> op.pre[1].selected = NULL

\* C21 witness: a run() rejected while the scraper held a content with a
\* selected item and its checkboxes were displayed.
C21_Witness ==
    /\ Rejected
    /\ content # NULL
    /\ \E k \in 1..Len(content[1]) : heap[content[1][k]].selected
    /\ body # <<>>

----------------------------------------------------------------------------
(* Claims about the fields of the items, checked under SpecExtract. *)

\* The items of both copies of the Reddit extractor on a Reddit page, and
\* the items of the extractor of the site on any other page.
AllItems ==
    IF site = "reddit"
    THEN Items \o RedditExtractV1(doc, includeHtml, treeWalker)
    ELSE Items

\* C22: for every item of every strategy's result, htmlContent is defined
\* exactly when the extractor was constructed with includeHtml = true.
C22_HtmlExactlyWhenIncluded ==
    result # NULL =>
        \A i \in 1..Len(AllItems) :
            AllItems[i].htmlContent # Undefined <=> includeHtml

\* C22 witness: an extractor constructed with includeHtml = true returned
\* an item, and its htmlContent is defined.
C22_Witness ==
    /\ result # NULL
    /\ includeHtml
    /\ Items # <<>>
    /\ Items[1].htmlContent # Undefined

----------------------------------------------------------------------------
(* Claims about generateId, checked under SpecHash.  Numbers modulo 2^32    *)
(* are pairs <<high, low>> of 16-bit halves.                                *)

\* a + b modulo 2^32.
Add32(a, b) ==
    LET lo == a[2] + b[2]
    IN  <<(a[1] + b[1] + lo \div Half) % Half, lo % Half>>

\* a * n modulo 2^32, as n additions.  (The tests on a half being at least
\* 0, here and below, are always true: they make the checker compute the
\* value before it goes on.)
RECURSIVE Times32(_, _)
Times32(a, n) ==
    IF n = 0 THEN <<0, 0>>
    ELSE LET rest == Times32(a, n - 1)
         IN  IF rest[1] >= 0 THEN Add32(a, rest) ELSE rest

\* h after the first n characters: h starts at 0 and becomes h*31 + c
\* modulo 2^32 for each character code c.
RECURSIVE StatedHash(_, _)
StatedHash(s, n) ==
    IF n = 0 THEN <<0, 0>>
    ELSE LET h == StatedHash(s, n - 1)
         IN  IF h[1] >= 0 THEN Add32(Times32(h, 31), <<0, s[n]>>) ELSE h

\* The absolute value of the pattern h read as a signed 32-bit integer.
StatedAbs(h) ==
    IF h[1] < Half \div 2 THEN h
    ELSE Add32(<<Half - 1 - h[1], Half - 1 - h[2]>>, <<0, 1>>)

\* The number a string of decimal digits denotes, modulo 2^32.
RECURSIVE DecimalValue(_, _)
DecimalValue(digits, n) ==
    IF n = 0 THEN <<0, 0>>
    ELSE LET v == DecimalValue(digits, n - 1)
         IN  IF v[1] >= 0 THEN Add32(Times32(v, 10), <<0, digits[n] - 48>>) ELSE v

\* Digit strings of one length compare as the numbers they denote.
DigitsLeq(a, b) ==
    \/ a = b
    \/ \E i \in 1..Len(a) : a[i] < b[i] /\ \A j \in 1..(i - 1) : a[j] = b[j]

\* "2147483648", the decimal digits of 2^31.
TwoTo31Digits == <<50, 49, 52, 55, 52, 56, 51, 54, 52, 56>>

\* C23: generateId(text) is the base-10 string of the absolute value of h,
\* where h starts at 0 and for each character code c becomes h*31 + c
\* modulo 2^32 read as a signed 32-bit integer; the empty text gives "0",
\* and the result is a string of decimal digits denoting a number between
\* 0 and 2^31 inclusive.
C23_GenerateIdIsStatedHash ==
    result # NULL =>
        LET text == doc[1].data
            id == result[1]
        IN  /\ id # <<>>
            /\ \A i \in 1..Len(id) : id[i] \in 48..57
            /\ Len(id) > 1 => id[1] # 48
            /\ Len(id) <= Len(TwoTo31Digits)
            /\ Len(id) = Len(TwoTo31Digits) => DigitsLeq(id, TwoTo31Digits)
            /\ DecimalValue(id, Len(id)) = StatedAbs(StatedHash(text, Len(text)))
            /\ text = <<>> => id = <<48>>

\* C23 witness: the id of a text whose hash is the most negative 32-bit
\* integer, which is the string "2147483648".
C23_Witness ==
    /\ result # NULL
    /\ doc[1].data = MinValueText
    /\ result[1] = TwoTo31Digits

----------------------------------------------------------------------------
(* Claims about extractTextFromElement, checked under SpecWalk. *)

\* The trimmed non-empty texts of the text nodes of the subtree at path
\* that have no excluded ancestor inside the subtree, in document order,
\* joined by single spaces.
StatedText(d, path) ==
    LET root == NodeAt(d, path)
        nodes == TextNodesFrom(root.childNodes, {root.tagName}, 1)
        accepted(n) == n.tags \cap ExcludedTags = {}
        kept == SelectSeq(nodes, accepted)
        parts == [i \in 1..Len(kept) |-> trim(kept[i].data)]
    IN  join(SelectSeq(parts, NonEmpty), <<SPACE>>)

\* C24: for every subtree, extractTextFromElement returns the trimmed
\* non-empty texts of all text nodes that have no script, style, noscript,
\* svg or canvas ancestor inside the subtree, in document order and joined
\* by single spaces (normalized by cleanText), and no text of a node inside
\* such an element; an empty or whitespace-only subtree gives the empty
\* string.
C24_TextOfSubtree ==
    result # NULL =>
        result[1].text = cleanText(StatedText(doc, result[1].path))

\* C25: the TreeWalker traversal and the manual recursive walk produce the
\* same text for the same subtree, for every root element, including a root
\* that is, or lies inside, an excluded element.
C25_WalksAgree ==
    result # NULL =>
        cleanText(TreeWalkerText(doc, result[1].path))
            = extractTextRecursive(NodeAt(doc, result[1].path))

----------------------------------------------------------------------------
(* Claims about the text cache, checked under SpecCache. *)

CacheSize(c) == Cardinality(DOMAIN c)

\* C26: the text cache never changes a result: each cleanText call, also
\* after the cache was cleared, returns the string the uncached
\* normalization of its argument gives.
C26_CacheIsTransparent ==
    /\ result # NULL => result[1].value = cleanText(result[1].text)
    /\ \A t \in DOMAIN textCache : textCache[t] = cleanText(t)

\* C26 witness: after the cache was cleared, a call is answered from it.
C26_Witness ==
    /\ result # NULL
    /\ result[1].hit
    /\ result[1].cleared

\* C27: the cache holds at most 101 entries: a miss that finds more than
\* 100 entries clears the whole cache before it stores the new entry, and
\* a hit never changes the cache.
C27_CacheIsCapped ==
    /\ CacheSize(textCache) <= CacheLimit + 1
    /\ result # NULL =>
          /\ result[1].hit => textCache = result[1].before
          /\ (~result[1].hit /\ CacheSize(result[1].before) > CacheLimit) =>
                 DOMAIN textCache = {result[1].text}
          /\ (~result[1].hit /\ CacheSize(result[1].before) <= CacheLimit) =>
                 DOMAIN textCache = DOMAIN result[1].before \cup {result[1].text}

\* C27 witness: a miss found 101 entries and left the new entry alone.
C27_Witness ==
    /\ result # NULL
    /\ ~result[1].hit
    /\ CacheSize(result[1].before) = CacheLimit + 1
    /\ CacheSize(textCache) = 1

----------------------------------------------------------------------------
(* Claims about the checkbox nodes of a UIManager, checked under SpecUI. *)

\* The items of the checkbox nodes in the document, in document order.
CheckboxItems == [k \in 1..Len(body) |-> body[k].item]

\* The items with an element among those of a displayCheckboxes call.
WithElement(items) ==
    LET hasElement(o) == heap[o].element # NULL
    IN  SelectSeq(items, hasElement)

\* C28: after any sequence of displayCheckboxes(items) and destroy() calls
\* the checkbox nodes in the document are exactly one per item with a
\* non-null element of the most recent displayCheckboxes call, and none
\* after destroy(); checkboxes of earlier calls never remain.
C28_OnlyLatestCheckboxes ==
    /\ op.name = "uiDisplay" => CheckboxItems = WithElement(op.detail[1])
    /\ op.name = "uiDestroy" => body = <<>>

----------------------------------------------------------------------------
(* Claims about the checkboxes of a ContentScraper, checked under Spec. *)

\* The selected flag getContent() reports for the object o of the content.
ReportedSelected(o) ==
    LET got == GetContent(heap, content)
    IN  got.heap[got.value[1][IndexIn(content, o)]].selected

\* C29: at every point after checkboxes are displayed through
\* ContentScraper and after any sequence of clicks, each displayed checkbox
\* shows the checkmark exactly when the selected flag of its item, as
\* reported by getContent(), is true.
C29_CheckmarkIsSelectedFlag ==
    content # NULL =>
        \A k \in 1..Len(body) :
            IndexIn(content, body[k].item) > 0 =>
                (body[k].checked <=> ReportedSelected(body[k].item))

\* C30: after any run() resolves, every checkbox still present in the
\* document belongs to an item of the content that getContent() now
\* returns: no checkbox of an earlier extraction survives a later run().
C30_NoCheckboxOfEarlierRun ==
    op.name = "resolve" =>
        \A k \in 1..Len(body) : IndexIn(content, body[k].item) > 0

====
